---- MODULE Spec2Model ----
(***************************************************************************)
(* Content-fetch caching and fallback layer of the Spark blog frontend:    *)
(* the TTL memory cache (MemoryCache, apiCache), retryWithBackoff,         *)
(* withErrorBoundary and the ContentManager queries.                       *)
(*                                                                         *)
(* Spec      : the MemoryCache state machine (get / set / delete / clear / *)
(*             cleanup, the clock and the enableCache flag).               *)
(* SpecEvict : set / delete over four non-empty keys, for eviction order.  *)
(* SpecRetry : runs of retryWithBackoff against an arbitrary fn.           *)
(* SpecCM    : sequential ContentManager queries over apiCache, the retried *)
(*             fetch of getPublishedArticles and the upstream.             *)
(* SpecBoundary : calls of withErrorBoundary around an arbitrary operation.*)
(* SpecHist  : MemoryCache with the history of what its gets stored and    *)
(*             what cleanup returned.                                      *)
(* SpecConc  : two callers of get within one instant of the clock.         *)
(* SpecStats : MemoryCache with calls of getStats.                         *)
(* SpecKey   : calls of generateCacheKey over small params objects.        *)
(* SpecAuth  : ContentManager queries against an upstream that can answer  *)
(*             401 (fetchAPI in development and in production).            *)
(* SpecList  : the cached Strapi list queries of strapi.ts.                *)
(* SpecPage  : page requests through the unified data fetcher.             *)
(* SpecFresh : getSortedPosts and the other readers of published-articles  *)
(*             against an upstream that always answers.                    *)
(***************************************************************************)
EXTENDS Integers, Sequences, FiniteSets, TLC

\* ---------------------------------------------------------------- bounds
MaxTime == 2          \* the clock Date.now() runs over 0..MaxTime
MaxMaxSize == 2       \* the constructor's maxSize ranges over 1..MaxMaxSize
MaxTtlArg == 1        \* explicit ttl overrides range over 0..MaxTtlArg
MaxDefaultTTL == 2    \* the constructor's defaultTTL (scaled milliseconds)
MaxEvictSize == 3     \* SpecEvict: maxSize ranges over 1..MaxEvictSize
MaxMaxRetries == 3    \* SpecRetry: maxRetries ranges over 0..MaxMaxRetries
MaxCMRetries == 2     \* SpecCM: config.api.retryAttempts ranges over 0..MaxCMRetries
MaxParams == 2        \* SpecKey: params objects have 0..MaxParams properties

\* ---------------------------------------------------------------- values
Undefined == -1                     \* a missing optional number (ttl?)
UndefinedKey == "<undefined>"       \* keys().next().value of an empty Map
Keys == {"", "a"}                   \* cache keys; "" is a legal string key
Data == {1, 2}                      \* opaque payloads; the code never inspects them
TtlArgs == {Undefined} \cup (0..MaxTtlArg)
FetchErrors == {"E1", "E2"}         \* errors a fetcher can reject with
Procs == {"p1"}                     \* callers of the asynchronous get
EvictKeys == {"a", "b", "c", "d"}   \* SpecEvict: keys, all truthy
BaseDelays == {100, 1000}           \* baseDelay arguments (ms)
Statuses == {400, 404, 429, 499, 500}   \* APIError.status values

NoResult == [kind |-> "none", data |-> 0, error |-> ""]
ResolveWith(d) == [kind |-> "value", data |-> d, error |-> ""]
RejectWith(e) == [kind |-> "error", data |-> 0, error |-> e]

VARIABLES
  cache,        \* MemoryCache.cache: the Map as a sequence in insertion order
  maxSize,      \* MemoryCache.maxSize
  defaultTTL,   \* MemoryCache.defaultTTL
  enableCache,  \* config.features.enableCache
  now,          \* Date.now()
  call,         \* per caller: the activation of the async method get
  maxRetries,   \* retryWithBackoff: argument maxRetries
  baseDelay,    \* retryWithBackoff: argument baseDelay
  attempt,      \* retryWithBackoff: the loop variable
  lastError,    \* retryWithBackoff: the local lastError
  retryPc,      \* retryWithBackoff: "idle", "calling", "waiting" or "done"
  retryResult,  \* retryWithBackoff: how the returned promise settled
  fnCalls,      \* history: number of invocations of fn in this run
  thrown,       \* history: the error each failed invocation rejected with
  waits,        \* history: the setTimeout delays of this run, in order
  req,          \* ContentManager: the content query being served
  enableRetry,  \* config.features.enableRetry
  useCache,     \* ContentManager.options.useCache
  boundary,     \* the activation of withErrorBoundary
  pending,      \* SpecHist: the activation of get
  sweep,        \* SpecHist: time and return value of the last cleanup()
  fetched,      \* history: per key the fetched value a get stored last
  stats,        \* the object the last getStats() returned
  keyCall,      \* generateCacheKey: the arguments and the returned key
  page,         \* unified-data-fetcher: requestCache and the page request
  origin        \* history: per key when its stored data left the upstream

cacheVars == <<cache, maxSize, defaultTTL, enableCache, now, call>>
retryVars == <<maxRetries, baseDelay, attempt, lastError, retryPc,
               retryResult, fnCalls, thrown, waits>>
auxVars == <<boundary, pending, sweep, stats, keyCall, page>>
lateVars == <<stats, keyCall, page, origin>>
extVars == <<req, enableRetry, useCache, boundary, pending, sweep, fetched,
             stats, keyCall, page, origin>>
vars == <<cache, maxSize, defaultTTL, enableCache, now, call,
          maxRetries, baseDelay, attempt, lastError, retryPc,
          retryResult, fnCalls, thrown, waits, req, enableRetry, useCache,
          boundary, pending, sweep, fetched, stats, keyCall, page, origin>>

\* ------------------------------------------------- JavaScript primitives
\* truthiness of a string-or-undefined value: "" and undefined are falsy
TruthyKey(k) == k # "" /\ k # UndefinedKey

\* truthiness of a number-or-undefined value: 0 and undefined are falsy
TruthyNum(n) == n # 0 /\ n # Undefined

\* ------------------------------------------------------ Map<string,Entry>
MapKeys(m) == {m[i].key : i \in DOMAIN m}

MapHas(m, k) == k \in MapKeys(m)

\* Map.get: the entry stored under k, as a set with 0 or 1 elements
MapGet(m, k) == {m[i] : i \in {j \in DOMAIN m : m[j].key = k}}

\* variant: the first write of a key wins
MapSetKeepFirst(m, e) == IF MapHas(m, e.key) THEN m ELSE Append(m, e)

\* Map.set: an existing key keeps its position, a new key goes last
MapSet(m, e) ==
  IF MapHas(m, e.key)
  THEN [i \in DOMAIN m |-> IF m[i].key = e.key THEN e ELSE m[i]]
  ELSE Append(m, e)

MapDelete(m, k) == SelectSeq(m, LAMBDA x : x.key # k)

\* Map.keys().next().value
FirstKey(m) == IF Len(m) = 0 THEN UndefinedKey ELSE m[1].key

\* ------------------------------------------------------------ MemoryCache
\* variant: an entry still counts as fresh at age = ttl
IsFreshInclusive(e, t) == (t - e.timestamp) <= e.ttl

\* the hit test of get: (now - cached.timestamp) < cached.ttl
IsFresh(e, t) == (t - e.timestamp) < e.ttl

\* the sweep test of cleanup: (now - entry.timestamp) >= entry.ttl
IsExpired(e, t) == (t - e.timestamp) >= e.ttl

\* ttl: ttl || this.defaultTTL
EntryTtl(t, dflt) == IF TruthyNum(t) THEN t ELSE dflt

\* the eviction step of set
Evict(m, max) ==
  IF Len(m) >= max
  THEN LET oldestKey == FirstKey(m)
       IN  IF TruthyKey(oldestKey) THEN MapDelete(m, oldestKey) ELSE m
  ELSE m

\* variant: set that does not test the enableCache flag
CacheSetUnguarded(m, enabled, max, dflt, k, d, t, time) ==
  MapSet(Evict(m, max),
         [key |-> k, data |-> d, timestamp |-> time,
          ttl |-> EntryTtl(t, dflt)])

\* MemoryCache.set
CacheSet(m, enabled, max, dflt, k, d, t, time) ==
  IF ~enabled
  THEN m
  ELSE MapSet(Evict(m, max),
              [key |-> k, data |-> d, timestamp |-> time,
               ttl |-> EntryTtl(t, dflt)])

\* variant: the sweep removes every entry
CleanupMapAll(m, time) == <<>>

\* MemoryCache.cleanup: the map after the sweep
CleanupMap(m, time) == SelectSeq(m, LAMBDA x : ~IsExpired(x, time))

\* the hit test of get applied to the looked-up entry: cached && fresh
CacheHit(cached, t) == cached # {} /\ (\A e \in cached : IsFresh(e, t))

\* variant: the catch block always rethrows
GetOnRejectRethrow(cached, e) == RejectWith(e)

\* variant: without stale data the catch block throws a new generic error
GetOnRejectWrapped(cached, e) ==
  IF cached # {}
  THEN ResolveWith((CHOOSE c \in cached : TRUE).data)
  ELSE RejectWith("E1")

\* the catch block of get: stale data if (cached), else throw error
GetOnReject(cached, e) ==
  IF cached # {}
  THEN ResolveWith((CHOOSE c \in cached : TRUE).data)
  ELSE RejectWith(e)

\* what the suspended get keeps of the looked-up entry: it reads only
\* cached (truthiness) and cached.data after the await
Held(cached) == {[data |-> e.data] : e \in cached}

IdleCall ==
  [pc |-> "idle", mode |-> "none", key |-> "", ttl |-> Undefined,
   cached |-> {}, fetches |-> 0, outcome |-> NoResult, result |-> NoResult]

\* ------------------------------------------------ errors, retryWithBackoff
NoError == [api |-> FALSE, status |-> 0, id |-> 0]

\* an APIError with a status, as thrown by the id-th invocation of fn
APIError(s, n) == [api |-> TRUE, status |-> s, id |-> n]

\* a NetworkError (or any other non-APIError), thrown by the id-th invocation
NetworkError(n) == [api |-> FALSE, status |-> 0, id |-> n]

\* APIError.isRetryable
IsRetryable(s) == s >= 500 \/ s = 429

\* variant: the lower bound of the client range is exclusive
IsClientErrorExclusive(s) == s > 400 /\ s < 500

\* APIError.isClientError
IsClientError(s) == s >= 400 /\ s < 500

\* variant: an authentication failure does not end the run
StopsRetryButAuth(err) ==
  err.api /\ IsClientError(err.status) /\ err.status # 401

\* error instanceof APIError && error.isClientError
StopsRetry(err) == err.api /\ IsClientError(err.status)

\* variant: the loop gives up one attempt early
IsFinalAttemptEarly(a, m) == a + 1 >= m

\* attempt === maxRetries
IsFinalAttempt(a, m) == a = m

RECURSIVE Pow(_, _)
\* Math.pow(b, n) for a natural exponent
Pow(b, n) == IF n = 0 THEN 1 ELSE b * Pow(b, n - 1)

\* variant: linear instead of exponential backoff
BackoffDelayLinear(base, a) == base * (a + 1)

\* baseDelay * Math.pow(2, attempt)
BackoffDelay(base, a) == base * Pow(2, a)

RetryNone == [kind |-> "none", data |-> 0, err |-> NoError]
RetryValue(d) == [kind |-> "value", data |-> d, err |-> NoError]
RetryThrow(err) == [kind |-> "error", data |-> 0, err |-> err]

\* -------------------------------------------------------- content query
Empty == 0   \* the empty post list [] / no post (null, undefined)

\* no content query is being served
IdleReq ==
  [pc |-> "idle", op |-> "none", outer |-> {}, inner |-> {},
   outerMode |-> "none", innerMode |-> "none", calls |-> 0,
   upstream |-> "none", failure |-> "", result |-> NoResult]

\* withErrorBoundary is not running
IdleBoundary ==
  [pc |-> "idle", fallback |-> 0, context |-> "", outcome |-> RetryNone,
   result |-> NoResult, log |-> "none"]

\* no get is running
IdlePending ==
  [pc |-> "idle", key |-> "", ttl |-> Undefined, mode |-> "none",
   held |-> {}, flushed |-> FALSE, outcome |-> NoResult, result |-> NoResult]

\* cleanup() has not been called
IdleSweep == [at |-> Undefined, removed |-> 0]

\* ------------------------------------------------------------------ Init
\* getStats() has not been called
NullKey == "<null>"
IdleStats ==
  [seq |-> 0, totalEntries |-> 0, maxSize |-> 0, validEntries |-> 0,
   expiredEntries |-> 0, oldestEntry |-> NullKey, newestEntry |-> NullKey]

\* generateCacheKey has not been called
IdleKeyCall == [pc |-> "idle", prefix |-> "", params |-> <<>>, key |-> ""]

\* requestCache = {} and no page request is being served
IdlePage == [pc |-> "idle", posts |-> Undefined, calls |-> 0,
             result |-> Undefined]

InitAuxIdle ==
  /\ boundary = IdleBoundary /\ pending = IdlePending
  /\ sweep = IdleSweep /\ fetched = {}
  /\ stats = IdleStats /\ keyCall = IdleKeyCall /\ page = IdlePage
  /\ origin = {}

InitExtIdle ==
  /\ req = IdleReq /\ enableRetry = TRUE /\ useCache = TRUE
  /\ InitAuxIdle

InitRetryIdle ==
  /\ maxRetries = 0 /\ baseDelay = 0 /\ attempt = 0 /\ lastError = NoError
  /\ retryPc = "idle" /\ retryResult = RetryNone
  /\ fnCalls = 0 /\ thrown = <<>> /\ waits = <<>>

Init ==
  /\ cache = <<>>
  /\ maxSize \in 1..MaxMaxSize
  /\ defaultTTL = MaxDefaultTTL
  /\ enableCache = TRUE
  /\ now = 0
  /\ call = [p \in Procs |-> IdleCall]
  /\ InitRetryIdle
  /\ InitExtIdle

\* ------------------------------------------------------ MemoryCache steps
\* get, up to the first await: flag test, lookup, hit test, fetcher() call
GetStart(p, k, t) ==
  /\ call[p].pc \in {"idle", "done"}
  /\ IF ~enableCache
     THEN call' = [call EXCEPT ![p] =
                     [IdleCall EXCEPT !.pc = "fetching", !.mode = "bypass",
                                      !.key = k, !.ttl = t, !.fetches = 1]]
     ELSE LET cached == MapGet(cache, k)
          IN  IF CacheHit(cached, now)
              THEN call' = [call EXCEPT ![p] =
                     [IdleCall EXCEPT !.pc = "done", !.mode = "hit",
                                      !.key = k,
                                      !.result = ResolveWith(
                                         (CHOOSE e \in cached : TRUE).data)]]
              ELSE call' = [call EXCEPT ![p] =
                     [IdleCall EXCEPT !.pc = "fetching", !.mode = "miss",
                                      !.key = k, !.ttl = t,
                                      !.cached = Held(cached),
                                      !.fetches = 1]]
  /\ UNCHANGED <<cache, maxSize, defaultTTL, enableCache, now, retryVars, extVars>>

\* the fetcher's promise fulfils with d: this.set(key, data, ttl); return data
FetchResolve(p, d) ==
  /\ call[p].pc = "fetching"
  /\ call' = [call EXCEPT ![p].pc = "done",
                          ![p].ttl = Undefined, ![p].cached = {},
                          ![p].outcome = ResolveWith(d),
                          ![p].result = ResolveWith(d)]
  /\ cache' = IF call[p].mode = "bypass"
              THEN cache
              ELSE CacheSet(cache, enableCache, maxSize, defaultTTL,
                            call[p].key, d, call[p].ttl, now)
  /\ UNCHANGED <<maxSize, defaultTTL, enableCache, now, retryVars, extVars>>

\* the fetcher's promise rejects with e: stale data if cached, else rethrow
FetchReject(p, e) ==
  /\ call[p].pc = "fetching"
  /\ call' = [call EXCEPT ![p].pc = "done",
                          ![p].ttl = Undefined, ![p].cached = {},
                          ![p].outcome = RejectWith(e),
                          ![p].result =
                             IF call[p].mode = "bypass"
                             THEN RejectWith(e)
                             ELSE GetOnReject(call[p].cached, e)]
  /\ UNCHANGED <<cache, maxSize, defaultTTL, enableCache, now, retryVars, extVars>>

\* a direct call of set
Set(k, d, t) ==
  /\ cache' = CacheSet(cache, enableCache, maxSize, defaultTTL, k, d, t, now)
  /\ UNCHANGED <<maxSize, defaultTTL, enableCache, now, call, retryVars, extVars>>

\* delete(key)
Delete(k) ==
  /\ cache' = MapDelete(cache, k)
  /\ UNCHANGED <<maxSize, defaultTTL, enableCache, now, call, retryVars, extVars>>

\* clear()
Clear ==
  /\ cache' = <<>>
  /\ UNCHANGED <<maxSize, defaultTTL, enableCache, now, call, retryVars, extVars>>

\* cleanup(), also run by the 5 minute interval timer
Cleanup ==
  /\ cache' = CleanupMap(cache, now)
  /\ UNCHANGED <<maxSize, defaultTTL, enableCache, now, call, retryVars, extVars>>

\* time passes
Tick ==
  /\ now < MaxTime
  /\ now' = now + 1
  /\ UNCHANGED <<cache, maxSize, defaultTTL, enableCache, call, retryVars, extVars>>

\* the host flips config.features.enableCache
SetEnableCache(b) ==
  /\ enableCache # b
  /\ enableCache' = b
  /\ UNCHANGED <<cache, maxSize, defaultTTL, now, call, retryVars, extVars>>

Next ==
  \/ \E p \in Procs, k \in Keys, t \in TtlArgs : GetStart(p, k, t)
  \/ \E p \in Procs, d \in Data : FetchResolve(p, d)
  \/ \E p \in Procs, e \in FetchErrors : FetchReject(p, e)
  \/ \E k \in Keys, d \in Data, t \in TtlArgs : Set(k, d, t)
  \/ \E k \in Keys : Delete(k)
  \/ Clear
  \/ Cleanup
  \/ Tick
  \/ \E b \in BOOLEAN : SetEnableCache(b)

Spec == Init /\ [][Next]_vars

\* ------------------------------------------- eviction order (SpecEvict)
\* the same cache, driven by set and delete over four truthy keys
InitEvict ==
  /\ cache = <<>>
  /\ maxSize \in 1..MaxEvictSize
  /\ defaultTTL = MaxDefaultTTL
  /\ enableCache = TRUE
  /\ now = 0
  /\ call = [p \in Procs |-> IdleCall]
  /\ InitRetryIdle
  /\ InitExtIdle

NextEvict ==
  \/ \E k \in EvictKeys : Set(k, 1, Undefined)
  \/ \E k \in EvictKeys : Delete(k)
  \/ Tick

SpecEvict == InitEvict /\ [][NextEvict]_vars

\* -------------------------------------------------- retryWithBackoff steps
\* the call: attempt = 0 and the first await fn()
RetryStart(m, b) ==
  /\ retryPc \in {"idle", "done"}
  /\ maxRetries' = m /\ baseDelay' = b
  /\ attempt' = 0 /\ lastError' = NoError
  /\ retryPc' = "calling" /\ retryResult' = RetryNone
  /\ fnCalls' = 1 /\ thrown' = <<>> /\ waits' = <<>>
  /\ UNCHANGED <<cacheVars, extVars>>

\* fn() fulfils with d: return await fn()
FnResolve(d) ==
  /\ retryPc = "calling"
  /\ retryPc' = "done" /\ retryResult' = RetryValue(d)
  /\ UNCHANGED <<maxRetries, baseDelay, attempt, lastError, fnCalls, thrown,
                 waits, cacheVars, extVars>>

\* fn() rejects with err: the catch block
FnReject(err) ==
  /\ retryPc = "calling"
  /\ lastError' = err
  /\ thrown' = Append(thrown, err)
  /\ IF StopsRetry(err) \/ IsFinalAttempt(attempt, maxRetries)
     THEN /\ retryPc' = "done" /\ retryResult' = RetryThrow(err)
          /\ waits' = waits
     ELSE /\ retryPc' = "waiting" /\ retryResult' = retryResult
          /\ waits' = Append(waits, BackoffDelay(baseDelay, attempt))
  /\ UNCHANGED <<maxRetries, baseDelay, attempt, fnCalls, cacheVars, extVars>>

\* the setTimeout fires: attempt++, loop test, next await fn()
TimerFires ==
  /\ retryPc = "waiting"
  /\ attempt' = attempt + 1
  /\ IF attempt + 1 <= maxRetries
     THEN /\ retryPc' = "calling" /\ fnCalls' = fnCalls + 1
          /\ retryResult' = retryResult
     ELSE /\ retryPc' = "done" /\ fnCalls' = fnCalls
          /\ retryResult' = RetryThrow(lastError)
  /\ UNCHANGED <<maxRetries, baseDelay, lastError, thrown, waits, cacheVars, extVars>>

InitRetry ==
  /\ cache = <<>>
  /\ maxSize = 1
  /\ defaultTTL = MaxDefaultTTL
  /\ enableCache = TRUE
  /\ now = 0
  /\ call = [p \in Procs |-> IdleCall]
  /\ InitRetryIdle
  /\ InitExtIdle

NextRetry ==
  \/ \E m \in 0..MaxMaxRetries, b \in BaseDelays : RetryStart(m, b)
  \/ \E d \in Data : FnResolve(d)
  \/ \E s \in Statuses : FnReject(APIError(s, fnCalls))
  \/ FnReject(NetworkError(fnCalls))
  \/ TimerFires

SpecRetry == InitRetry /\ [][NextRetry]_vars

\* ---------------------------------------------------- ContentManager model
\* the keys generateCacheKey yields for the three cached queries
SortedPostsKey == "sorted-posts:useHybridMode=false&useStrapi=true"
PublishedKey == "published-articles"
PostBySlugKey == "post-by-slug:slug=s&useStrapi=true"
CMKeys == {SortedPostsKey, PublishedKey, PostBySlugKey}

\* queries answered from the full post list, and the query by slug
PostsOps == {"getSortedPosts", "getPostCount", "getPaginatedPosts",
             "getPostsByTag", "getPostsByCategory", "searchPosts"}
SlugOp == "getPostBySlug"

\* strapi-content-utils functions that call getPublishedArticles themselves,
\* without the ContentManager level cache entry
ReaderOps == {"getTagList", "getCategoryList", "getAllPostSlugs"}

\* statuses the upstream answers a content query with
UpstreamStatuses == {404, 429, 500}

\* config.api.retryBaseDelay (production)
RetryBaseDelay == 500

\* error.name, which is what the layers above retryWithBackoff can tell
ErrName(err) ==
  IF ~err.api THEN "NetworkError"
  ELSE IF err.status = 401 THEN "SilentAPIError" ELSE "APIError"

\* variant: the boundary rethrows
WithErrorBoundaryRethrow(outcome, fallback) == outcome

\* withErrorBoundary(fn, fallback, context), given how fn() settled
WithErrorBoundary(outcome, fallback) ==
  IF outcome.kind = "error" THEN ResolveWith(fallback) ELSE outcome

\* strapi-content-utils getSortedPosts / getPostBySlug: try { adapt the
\* response } catch { return [] / null }
UtilsCatch(outcome) ==
  IF outcome.kind = "error" THEN ResolveWith(Empty) ELSE outcome

\* variant: neither the try/catch nor the boundary
FetchStrapiUnprotected(outcome) == outcome

\* ContentManager.fetchStrapiPosts / fetchStrapiPostBySlug: the boundary
\* around the utils call, given how the call below the utils settled
FetchStrapi(outcome) == WithErrorBoundary(UtilsCatch(outcome), Empty)

\* MemoryCache.get up to its await: bypass, hit or miss
GetMode(enabled, m, k, t) ==
  IF ~enabled THEN "bypass"
  ELSE IF CacheHit(MapGet(m, k), t) THEN "hit" ELSE "miss"

\* the data a hit returns
HitData(m, k) == (CHOOSE e \in MapGet(m, k) : TRUE).data

\* variant: get settles as its fetcher did
GetSettleRethrow(mode, held, outcome) == outcome

\* MemoryCache.get after its await: how get settles when the fetcher settled
GetSettle(mode, held, outcome) ==
  IF outcome.kind = "value" \/ mode # "miss"
  THEN outcome
  ELSE GetOnReject(held, outcome.error)

\* variant: a failed fetch re-inserts the expired entry it falls back on
GetStoreRefreshStale(mode, m, enabled, max, dflt, k, outcome, t, time) ==
  IF mode = "miss" /\ outcome.kind = "value"
  THEN CacheSet(m, enabled, max, dflt, k, outcome.data, t, time)
  ELSE IF mode = "miss" /\ MapHas(m, k)
  THEN CacheSet(m, enabled, max, dflt, k, HitData(m, k), t, time)
  ELSE m

\* variant: a fetch that finds the map emptied drops its result
GetStoreUnlessEmptied(mode, m, enabled, max, dflt, k, outcome, t, time) ==
  IF mode = "miss" /\ outcome.kind = "value" /\ m # <<>>
  THEN CacheSet(m, enabled, max, dflt, k, outcome.data, t, time)
  ELSE m

\* MemoryCache.get after its await: the map (this.set on success)
GetStore(mode, m, enabled, max, dflt, k, outcome, t, time) ==
  IF mode = "miss" /\ outcome.kind = "value"
  THEN CacheSet(m, enabled, max, dflt, k, outcome.data, t, time)
  ELSE m

\* history: get stored what its fetcher resolved with
NoteStore(f, mode, enabled, k, outcome, time) ==
  IF mode = "miss" /\ outcome.kind = "value" /\ enabled
  THEN {x \in f : x.key # k}
         \cup {[key |-> k, data |-> outcome.data, at |-> time]}
  ELSE f

\* history: when the data stored under k left the upstream (Undefined for
\* data that is no upstream response)
OriginOf(o, k) ==
  IF \E x \in o : x.key = k THEN (CHOOSE x \in o : x.key = k).at
  ELSE Undefined

\* history: the data now stored under k left the upstream at time at
NoteOrigin(o, k, at) == {x \in o : x.key # k} \cup {[key |-> k, at |-> at]}

\* the key of the ContentManager level cache entry of a query
OuterKey(op) == IF op = SlugOp THEN PostBySlugKey ELSE SortedPostsKey

\* the views are computed in memory from the post list the query obtained;
\* a list is identified by its number of posts, Empty yields the empty view
Derive(op, d) == IF d = Empty THEN Empty ELSE d

\* everything above the upstream call, once that call (the retried fetch of
\* getPublishedArticles, or the single fetch of getArticleBySlug) settled
\* with fetch: the settled query, the map and the history
SettleQuery(r, fetch, m, time) ==
  LET posts == r.op # SlugOp
      innerResult == IF posts THEN GetSettle(r.innerMode, r.inner, fetch)
                     ELSE fetch
      m1 == IF posts
            THEN GetStore(r.innerMode, m, enableCache, maxSize, defaultTTL,
                          PublishedKey, fetch, Undefined, time)
            ELSE m
      bound == FetchStrapi(innerResult)
      outerResult == IF r.outerMode = "direct" THEN bound
                     ELSE GetSettle(r.outerMode, r.outer, bound)
      m2 == IF r.outerMode = "direct" THEN m1
            ELSE GetStore(r.outerMode, m1, enableCache, maxSize, defaultTTL,
                          OuterKey(r.op), bound, defaultTTL, time)
  IN  [req |-> [r EXCEPT !.pc = "done", !.upstream = fetch.kind,
                         !.failure = fetch.error,
                         !.result =
                            IF outerResult.kind = "value"
                            THEN ResolveWith(Derive(r.op, outerResult.data))
                            ELSE outerResult],
       cache |-> m2,
       fetched |-> LET f1 == IF posts
                                THEN NoteStore(fetched, r.innerMode,
                                               enableCache, PublishedKey,
                                               fetch, time)
                                ELSE fetched
                   IN  NoteStore(f1, r.outerMode, enableCache,
                                 OuterKey(r.op), bound, time),
       origin |-> LET o1 == IF /\ posts /\ r.innerMode = "miss"
                               /\ fetch.kind = "value" /\ enableCache
                            THEN NoteOrigin(origin, PublishedKey, time)
                            ELSE origin
                      left == IF fetch.kind = "value" /\ r.innerMode # "hit"
                              THEN time
                              ELSE IF posts /\ innerResult.kind = "value"
                              THEN OriginOf(origin, PublishedKey)
                              ELSE Undefined
                  IN  IF r.outerMode = "miss" /\ enableCache
                      THEN NoteOrigin(o1, OuterKey(r.op), left)
                      ELSE o1]

\* how the layers above see the settled retryWithBackoff promise
Fetched(ro) ==
  IF ro.kind = "value" THEN ResolveWith(ro.data)
  ELSE RejectWith(ErrName(ro.err))

\* a content query is called: the ContentManager level lookup, then
\* getPublishedArticles' lookup, then the first upstream request
CMStart(op, m) ==
  /\ req.pc \in {"idle", "done"}
  /\ LET outerMode == IF ~useCache \/ op \in ReaderOps THEN "direct"
                      ELSE GetMode(enableCache, cache, OuterKey(op), now)
         innerMode == IF op = SlugOp THEN "none"
                      ELSE GetMode(enableCache, cache, PublishedKey, now)
         r == [IdleReq EXCEPT !.op = op, !.outerMode = outerMode,
                              !.innerMode = innerMode,
                              !.outer = Held(MapGet(cache, OuterKey(op))),
                              !.inner = IF op = SlugOp THEN {}
                                        ELSE Held(MapGet(cache, PublishedKey))]
     IN  IF outerMode = "hit"
         THEN /\ req' = [IdleReq EXCEPT
                           !.pc = "done", !.op = op, !.outerMode = "hit",
                           !.result = ResolveWith(
                              Derive(op, HitData(cache, OuterKey(op))))]
              /\ UNCHANGED <<cache, retryVars, fetched, origin>>
         ELSE IF innerMode = "hit"
         THEN LET s == SettleQuery(r, ResolveWith(HitData(cache, PublishedKey)),
                                   cache, now)
              IN  /\ req' = s.req /\ cache' = s.cache
                  /\ fetched' = s.fetched /\ origin' = s.origin
                  /\ UNCHANGED retryVars
         ELSE IF op # SlugOp /\ enableRetry
         THEN /\ req' = [r EXCEPT !.pc = "retrying", !.calls = 1]
              /\ maxRetries' = m /\ baseDelay' = RetryBaseDelay
              /\ attempt' = 0 /\ lastError' = NoError
              /\ retryPc' = "calling" /\ retryResult' = RetryNone
              /\ fnCalls' = 1 /\ thrown' = <<>> /\ waits' = <<>>
              /\ UNCHANGED <<cache, fetched, origin>>
         ELSE /\ req' = [r EXCEPT !.pc = "direct", !.calls = 1]
              /\ UNCHANGED <<cache, retryVars, fetched, origin>>
  /\ UNCHANGED <<maxSize, defaultTTL, enableCache, now, call,
                 enableRetry, useCache, auxVars>>

\* the upstream answers the un-retried request (fetchAPI returns or throws)
CMDirectSettle(fetch) ==
  /\ req.pc = "direct"
  /\ LET s == SettleQuery(req, fetch, cache, now)
     IN  /\ req' = s.req /\ cache' = s.cache
         /\ fetched' = s.fetched /\ origin' = s.origin
  /\ UNCHANGED <<maxSize, defaultTTL, enableCache, now, call, retryVars,
                 enableRetry, useCache, auxVars>>

\* the upstream answers a retried request with data
CMFnResolve(d) ==
  /\ req.pc = "retrying"
  /\ retryPc = "calling"
  /\ retryPc' = "done" /\ retryResult' = RetryValue(d)
  /\ LET s == SettleQuery(req, Fetched(RetryValue(d)), cache, now)
     IN  /\ req' = s.req /\ cache' = s.cache
         /\ fetched' = s.fetched /\ origin' = s.origin
  /\ UNCHANGED <<maxRetries, baseDelay, attempt, lastError, fnCalls, thrown,
                 waits, maxSize, defaultTTL, enableCache, now, call,
                 enableRetry, useCache, auxVars>>

\* the upstream fails a retried request: the catch block, and when the run
\* ends, everything above it
CMFnReject(err) ==
  /\ req.pc = "retrying"
  /\ retryPc = "calling"
  /\ lastError' = err
  /\ thrown' = Append(thrown, err)
  /\ IF StopsRetry(err) \/ IsFinalAttempt(attempt, maxRetries)
     THEN /\ retryPc' = "done" /\ retryResult' = RetryThrow(err)
          /\ waits' = waits
          /\ LET s == SettleQuery(req, Fetched(RetryThrow(err)), cache, now)
             IN  /\ req' = s.req /\ cache' = s.cache
                 /\ fetched' = s.fetched /\ origin' = s.origin
     ELSE /\ retryPc' = "waiting" /\ retryResult' = retryResult
          /\ waits' = Append(waits, BackoffDelay(baseDelay, attempt))
          /\ UNCHANGED <<req, cache, fetched, origin>>
  /\ UNCHANGED <<maxRetries, baseDelay, attempt, fnCalls,
                 maxSize, defaultTTL, enableCache, now, call,
                 enableRetry, useCache, auxVars>>

\* the backoff timer of a retried request fires: the next upstream request
CMTimerFires ==
  /\ req.pc = "retrying"
  /\ retryPc = "waiting"
  /\ attempt + 1 <= maxRetries
  /\ attempt' = attempt + 1
  /\ retryPc' = "calling" /\ fnCalls' = fnCalls + 1
  /\ req' = [req EXCEPT !.calls = req.calls + 1]
  /\ UNCHANGED <<maxRetries, baseDelay, lastError, retryResult, thrown, waits,
                 cacheVars, enableRetry, useCache, auxVars, fetched, origin>>

\* ContentManager.clearCache, POST /api/cache/clear: apiCache.clear()
CMClearCache ==
  /\ cache' = <<>>
  /\ fetched' = {}
  /\ origin' = {}
  /\ UNCHANGED <<maxSize, defaultTTL, enableCache, now, call, retryVars,
                 req, enableRetry, useCache, auxVars>>

InitCM ==
  /\ cache = <<>>
  /\ maxSize = Cardinality(CMKeys) + 1
  /\ defaultTTL = MaxDefaultTTL
  /\ enableCache = TRUE
  /\ now = 0
  /\ call = [p \in Procs |-> IdleCall]
  /\ InitRetryIdle
  /\ req = IdleReq
  /\ enableRetry \in BOOLEAN
  /\ useCache \in BOOLEAN
  /\ InitAuxIdle

\* config.api.retryAttempts is read only by a query that reaches
\* retryWithBackoff: no valid entry at either level, retries enabled
ReachesRetry(op) ==
  /\ op # SlugOp /\ enableRetry
  /\ ~useCache \/ GetMode(enableCache, cache, OuterKey(op), now) # "hit"
  /\ GetMode(enableCache, cache, PublishedKey, now) # "hit"

RetryAttempts(op) == IF ReachesRetry(op) THEN 0..MaxCMRetries ELSE {0}

NextCM ==
  \/ \E op \in PostsOps \cup {SlugOp} : \E m \in RetryAttempts(op) :
        CMStart(op, m)
  \/ \E d \in Data : CMDirectSettle(ResolveWith(d))
  \/ CMDirectSettle(RejectWith("APIError"))
  \/ CMDirectSettle(RejectWith("NetworkError"))
  \/ \E d \in Data : CMFnResolve(d)
  \/ \E s \in UpstreamStatuses : CMFnReject(APIError(s, fnCalls))
  \/ CMFnReject(NetworkError(fnCalls))
  \/ CMTimerFires
  \/ Tick
  \/ Cleanup
  \/ CMClearCache

SpecCM == InitCM /\ [][NextCM]_vars

\* ------------------------------------------- authentication failures
\* fetchAPI got a 401 response: under import.meta.env.DEV it returns empty
\* data, in production it throws the APIError renamed SilentAPIError
Unauthorized(dev) ==
  IF dev
  THEN \/ CMFnResolve(Empty)
       \/ CMDirectSettle(ResolveWith(Empty))
  ELSE \/ CMFnReject(APIError(401, fnCalls))
       \/ CMDirectSettle(RejectWith(ErrName(APIError(401, 1))))

NextAuth ==
  \/ \E op \in {"getSortedPosts", SlugOp}, m \in 0..MaxCMRetries :
       CMStart(op, m)
  \/ \E d \in Data : CMDirectSettle(ResolveWith(d))
  \/ CMDirectSettle(RejectWith("APIError"))
  \/ \E d \in Data : CMFnResolve(d)
  \/ CMFnReject(APIError(500, fnCalls))
  \/ \E dev \in BOOLEAN : Unauthorized(dev)
  \/ CMTimerFires
  \/ Tick
  \/ Cleanup

SpecAuth == InitCM /\ [][NextAuth]_vars

\* ------------------------------------------ cached Strapi list queries
\* getPublishedArticles, getArticlesByCategory, getAllCategories and
\* getFriendLinks: apiCache.get(key, fetcher) whose fetcher runs
\* fetchFunction directly when config.features.enableRetry is off and
\* through retryWithBackoff(fetchFunction, <second argument>) otherwise.
ListQueries ==
  {"getPublishedArticles", "getArticlesByCategory", "getAllCategories",
   "getFriendLinks"}

ListKey(q) ==
  CASE q = "getPublishedArticles" -> "published-articles"
    [] q = "getArticlesByCategory" -> "category-articles-a"
    [] q = "getAllCategories" -> "all-categories"
    [] OTHER -> "friend-links"

\* ToNumber of a value that is not numeric (an options object)
NaN == -2

\* the second argument of retryWithBackoff: config.api.retryAttempts for
\* three of the queries, an options object literal for getFriendLinks
RetryArg(q, m) == IF q = "getFriendLinks" THEN NaN ELSE m

\* attempt <= maxRetries; every comparison with NaN is false
LoopTest(a, m) == m # NaN /\ a <= m

\* the get of the running query settles with the fetcher's outcome
ListSettle(outcome) ==
  /\ req' = [req EXCEPT !.pc = "done", !.outer = {}, !.upstream = outcome.kind,
                        !.failure = outcome.error,
                        !.result = GetSettle(req.outerMode, req.outer, outcome)]
  /\ cache' = GetStore(req.outerMode, cache, enableCache, maxSize, defaultTTL,
                       ListKey(req.op), outcome, Undefined, now)

\* a list query is called: the lookup of get and, on a miss, the fetcher up
\* to its first await
ListStart(q, m) ==
  /\ req.pc \in {"idle", "done"}
  /\ LET cached == MapGet(cache, ListKey(q))
         mode == GetMode(enableCache, cache, ListKey(q), now)
         started == [IdleReq EXCEPT !.op = q, !.outerMode = mode,
                                    !.outer = Held(cached)]
     IN  IF mode = "hit"
         THEN /\ req' = [started EXCEPT !.pc = "done", !.outer = {},
                                        !.result = ResolveWith(HitData(cache, ListKey(q)))]
              /\ UNCHANGED <<cache, retryVars>>
         ELSE IF ~enableRetry
         THEN /\ req' = [started EXCEPT !.pc = "direct", !.calls = 1]
              /\ UNCHANGED <<cache, retryVars>>
         ELSE /\ maxRetries' = RetryArg(q, m) /\ baseDelay' = RetryBaseDelay
              /\ attempt' = 0 /\ lastError' = NoError
              /\ thrown' = <<>> /\ waits' = <<>>
              /\ IF LoopTest(0, RetryArg(q, m))
                 THEN /\ retryPc' = "calling" /\ retryResult' = RetryNone
                      /\ fnCalls' = 1
                      /\ req' = [started EXCEPT !.pc = "retrying", !.calls = 1]
                      /\ cache' = cache
                 ELSE \* the loop body never runs: throw lastError!
                      /\ retryPc' = "done" /\ fnCalls' = 0
                      /\ retryResult' = RetryThrow(NoError)
                      /\ req' = [started EXCEPT
                                   !.pc = "done", !.outer = {},
                                   !.upstream = "error",
                                   !.failure = "undefined",
                                   !.result = GetSettle(mode, Held(cached),
                                                RejectWith("undefined"))]
                      /\ cache' = cache
  /\ UNCHANGED <<maxSize, defaultTTL, enableCache, now, call, enableRetry,
                 useCache, fetched, origin, auxVars>>

\* enableRetry off: the single fetchAPI call settles
ListDirectSettle(outcome) ==
  /\ req.pc = "direct"
  /\ ListSettle(outcome)
  /\ UNCHANGED <<maxSize, defaultTTL, enableCache, now, call, retryVars,
                 enableRetry, useCache, fetched, origin, auxVars>>

\* fetchAPI fulfils inside retryWithBackoff
ListFnResolve(d) ==
  /\ req.pc = "retrying" /\ retryPc = "calling"
  /\ retryPc' = "done" /\ retryResult' = RetryValue(d)
  /\ ListSettle(ResolveWith(d))
  /\ UNCHANGED <<maxRetries, baseDelay, attempt, lastError, fnCalls, thrown,
                 waits, maxSize, defaultTTL, enableCache, now, call,
                 enableRetry, useCache, fetched, origin, auxVars>>

\* fetchAPI rejects inside retryWithBackoff
ListFnReject(err) ==
  /\ req.pc = "retrying" /\ retryPc = "calling"
  /\ lastError' = err
  /\ thrown' = Append(thrown, err)
  /\ IF StopsRetry(err) \/ IsFinalAttempt(attempt, maxRetries)
     THEN /\ retryPc' = "done" /\ retryResult' = RetryThrow(err)
          /\ waits' = waits
          /\ ListSettle(RejectWith(ErrName(err)))
     ELSE /\ retryPc' = "waiting" /\ retryResult' = retryResult
          /\ waits' = Append(waits, BackoffDelay(baseDelay, attempt))
          /\ UNCHANGED <<req, cache>>
  /\ UNCHANGED <<maxRetries, baseDelay, attempt, fnCalls, maxSize, defaultTTL,
                 enableCache, now, call, enableRetry, useCache, fetched,
                 origin, auxVars>>

\* the backoff timer fires: attempt++, loop test, next fetchAPI call
ListTimerFires ==
  /\ req.pc = "retrying" /\ retryPc = "waiting"
  /\ attempt' = attempt + 1
  /\ IF LoopTest(attempt + 1, maxRetries)
     THEN /\ retryPc' = "calling" /\ fnCalls' = fnCalls + 1
          /\ retryResult' = retryResult
          /\ req' = [req EXCEPT !.calls = @ + 1]
          /\ cache' = cache
     ELSE /\ retryPc' = "done" /\ fnCalls' = fnCalls
          /\ retryResult' = RetryThrow(lastError)
          /\ ListSettle(RejectWith(ErrName(lastError)))
  /\ UNCHANGED <<maxRetries, baseDelay, lastError, thrown, waits, maxSize,
                 defaultTTL, enableCache, now, call, enableRetry, useCache,
                 fetched, origin, auxVars>>

NextList ==
  \/ \E q \in ListQueries, m \in 1..MaxCMRetries : ListStart(q, m)
  \/ \E d \in Data : ListDirectSettle(ResolveWith(d))
  \/ ListDirectSettle(RejectWith("APIError"))
  \/ \E d \in Data : ListFnResolve(d)
  \/ \E s \in UpstreamStatuses : ListFnReject(APIError(s, fnCalls))
  \/ ListFnReject(NetworkError(fnCalls))
  \/ ListTimerFires
  \/ Tick

\* the cache holds at most two of the four list keys
InitList ==
  /\ cache = <<>>
  /\ maxSize = 2
  /\ defaultTTL = MaxDefaultTTL
  /\ enableCache = TRUE
  /\ now = 0
  /\ call = [p \in Procs |-> IdleCall]
  /\ InitRetryIdle
  /\ req = IdleReq
  /\ enableRetry \in BOOLEAN
  /\ useCache = TRUE
  /\ InitAuxIdle

SpecList == InitList /\ [][NextList]_vars

\* --------------------------------------------- unified-data-fetcher
\* requestCache is a module-level object; page holds requestCache.posts
\* (Undefined: property absent) and the position of the running page
\* request.  getIndexPageData and getPostPageData both obtain their posts
\* through getCachedPosts.

\* a page request reaches getCachedPosts: if (!requestCache.posts) ...
\* (an array, empty or not, is truthy)
PageStart ==
  /\ page.pc \in {"idle", "done"}
  /\ req.pc \in {"idle", "done"}
  /\ IF page.posts # Undefined
     THEN /\ page' = [page EXCEPT !.pc = "done", !.calls = 0,
                                  !.result = page.posts]
          /\ req' = req
     ELSE /\ page' = [page EXCEPT !.pc = "calling", !.calls = 0,
                                  !.result = Undefined]
          /\ req' = IdleReq
  /\ UNCHANGED <<cacheVars, retryVars, enableRetry, useCache, boundary,
                 pending, sweep, fetched, stats, keyCall, origin>>

\* getCachedPosts calls contentManager.getSortedPosts()
PageCall(m) ==
  /\ page.pc \in {"calling", "detached-calling"}
  /\ req.pc = "idle"
  /\ CMStart("getSortedPosts", m)

\* the await in getCachedPosts resumes: requestCache.posts = <posts>, where
\* requestCache was read before the await
PageFinish ==
  /\ page.pc \in {"calling", "detached-calling"}
  /\ req.pc = "done"
  /\ page' = IF req.result.kind = "value"
             THEN [pc |-> "done",
                   posts |-> IF page.pc = "calling" THEN req.result.data
                             ELSE page.posts,
                   calls |-> 1, result |-> req.result.data]
             ELSE [page EXCEPT !.pc = "done", !.calls = 1]
  /\ UNCHANGED <<cacheVars, retryVars, req, enableRetry, useCache, boundary,
                 pending, sweep, fetched, stats, keyCall, origin>>

\* resetRequestCache(): requestCache = {}
ResetRequestCache ==
  /\ page' = [page EXCEPT !.posts = Undefined,
                          !.pc = IF page.pc = "calling"
                                 THEN "detached-calling" ELSE @]
  /\ UNCHANGED <<cacheVars, retryVars, req, enableRetry, useCache, boundary,
                 pending, sweep, fetched, stats, keyCall, origin>>

NextPage ==
  \/ PageStart
  \/ \E m \in 0..MaxCMRetries : PageCall(m)
  \/ PageFinish
  \/ ResetRequestCache
  \/ \E d \in Data : CMDirectSettle(ResolveWith(d))
  \/ CMDirectSettle(RejectWith("APIError"))
  \/ \E d \in Data : CMFnResolve(d)
  \/ \E s \in UpstreamStatuses : CMFnReject(APIError(s, fnCalls))
  \/ CMTimerFires
  \/ Tick

SpecPage == InitCM /\ [][NextPage]_vars

\* ------------------------------------------------ freshness of the posts
\* getSortedPosts and the other readers of published-articles with an
\* upstream that always answers; the clock runs to twice the shortest TTL
\* with which one entry can outlive the other
FreshTick ==
  /\ now < 2 * MaxDefaultTTL
  /\ now' = now + 1
  /\ UNCHANGED <<cache, maxSize, defaultTTL, enableCache, call, retryVars,
                 extVars>>

InitFresh ==
  /\ cache = <<>>
  /\ maxSize = Cardinality(CMKeys) + 1
  /\ defaultTTL = MaxDefaultTTL + 1
  /\ enableCache = TRUE
  /\ now = 0
  /\ call = [p \in Procs |-> IdleCall]
  /\ InitRetryIdle
  /\ req = IdleReq
  /\ enableRetry \in BOOLEAN
  /\ useCache = TRUE
  /\ InitAuxIdle

NextFresh ==
  \/ \E op \in {"getSortedPosts"} \cup ReaderOps, m \in 0..MaxCMRetries :
        CMStart(op, m)
  \/ \E d \in Data : CMDirectSettle(ResolveWith(d))
  \/ \E d \in Data : CMFnResolve(d)
  \/ FreshTick

SpecFresh == InitFresh /\ [][NextFresh]_vars

\* ------------------------------------------------ withErrorBoundary steps
\* a thrown value that is not an Error object
ThrownValue == [api |-> FALSE, status |-> 0, id |-> Undefined]

\* everything an operation can throw or reject with
Throwables ==
  {APIError(s, n) : s \in Statuses \cup {401}, n \in 0..1}
    \cup {NetworkError(n) : n \in 0..1} \cup {ThrownValue}

\* the console method the catch block reports through
BoundaryLog(err) == IF err.api /\ err.status = 401 THEN "warn" ELSE "error"

\* withErrorBoundary(fn, fallback, context) up to its await of fn()
BoundaryCall(fb, ctx) ==
  /\ boundary.pc \in {"idle", "done"}
  /\ boundary' = [IdleBoundary EXCEPT !.pc = "awaiting", !.fallback = fb,
                                      !.context = ctx]
  /\ UNCHANGED <<cacheVars, retryVars, req, enableRetry, useCache,
                 pending, sweep, fetched,
                 lateVars>>

\* fn() settled: return its value, or log and return the fallback
BoundarySettle(ro) ==
  /\ boundary.pc = "awaiting"
  /\ boundary' =
       [boundary EXCEPT
          !.pc = "done", !.outcome = ro,
          !.result = WithErrorBoundary(Fetched(ro), boundary.fallback),
          !.log = IF ro.kind = "error" THEN BoundaryLog(ro.err) ELSE "none"]
  /\ UNCHANGED <<cacheVars, retryVars, req, enableRetry, useCache,
                 pending, sweep, fetched,
                 lateVars>>

InitBoundary ==
  /\ cache = <<>>
  /\ maxSize = 1
  /\ defaultTTL = MaxDefaultTTL
  /\ enableCache = TRUE
  /\ now = 0
  /\ call = [p \in Procs |-> IdleCall]
  /\ InitRetryIdle
  /\ InitExtIdle

NextBoundary ==
  \/ \E fb \in Data \cup {Empty}, ctx \in {"", "fetchStrapiPosts"} :
       BoundaryCall(fb, ctx)
  \/ \E d \in Data \cup {Empty} : BoundarySettle(RetryValue(d))
  \/ \E x \in Throwables : BoundarySettle(RetryThrow(x))

SpecBoundary == InitBoundary /\ [][NextBoundary]_vars

\* ------------------------------------- MemoryCache with its call history
\* variant: the sweep spares the entries whose age equals their ttl
CleanupCountStrict(m, time) ==
  Cardinality({i \in DOMAIN m : (time - m[i].timestamp) > m[i].ttl})

\* MemoryCache.cleanup: cleanedCount
CleanupCount(m, time) ==
  Cardinality({i \in DOMAIN m : IsExpired(m[i], time)})

\* get, up to its await
HGetStart(k, t) ==
  /\ pending.pc \in {"idle", "done"}
  /\ LET mode == GetMode(enableCache, cache, k, now)
     IN  pending' =
           IF mode = "hit"
           THEN [IdlePending EXCEPT !.pc = "done", !.key = k, !.mode = mode,
                                    !.result = ResolveWith(HitData(cache, k))]
           ELSE [IdlePending EXCEPT !.pc = "fetching", !.key = k, !.ttl = t,
                                    !.mode = mode,
                                    !.held = Held(MapGet(cache, k))]
  /\ UNCHANGED <<cacheVars, retryVars, req, enableRetry, useCache,
                 boundary, sweep, fetched,
                 lateVars>>

\* get, after its await: the fetcher settled
HFetchSettle(outcome) ==
  /\ pending.pc = "fetching"
  /\ pending' = [pending EXCEPT
                   !.pc = "done", !.outcome = outcome,
                   !.result = GetSettle(pending.mode, pending.held, outcome)]
  /\ cache' = GetStore(pending.mode, cache, enableCache, maxSize, defaultTTL,
                       pending.key, outcome, pending.ttl, now)
  /\ fetched' = NoteStore(fetched, pending.mode, enableCache, pending.key,
                          outcome, now)
  /\ UNCHANGED <<maxSize, defaultTTL, enableCache, now, call, retryVars,
                 req, enableRetry, useCache, boundary, sweep,
                 lateVars>>

\* history: delete or clear ran on the key of the get that awaits its fetcher
NoteFlush(g, all, k) ==
  IF g.pc = "fetching" /\ (all \/ k = g.key)
  THEN [g EXCEPT !.flushed = TRUE]
  ELSE g

\* delete(key)
HDelete(k) ==
  /\ cache' = MapDelete(cache, k)
  /\ fetched' = {f \in fetched : f.key # k}
  /\ pending' = NoteFlush(pending, FALSE, k)
  /\ UNCHANGED <<maxSize, defaultTTL, enableCache, now, call, retryVars,
                 req, enableRetry, useCache, boundary, sweep,
                 lateVars>>

\* clear()
HClear ==
  /\ cache' = <<>>
  /\ fetched' = {}
  /\ pending' = NoteFlush(pending, TRUE, "")
  /\ UNCHANGED <<maxSize, defaultTTL, enableCache, now, call, retryVars,
                 req, enableRetry, useCache, boundary, sweep,
                 lateVars>>

\* cleanup(), also run by the 5 minute interval timer
HCleanup ==
  /\ cache' = CleanupMap(cache, now)
  /\ sweep' = [at |-> now, removed |-> CleanupCount(cache, now)]
  /\ UNCHANGED <<maxSize, defaultTTL, enableCache, now, call, retryVars,
                 req, enableRetry, useCache, boundary, pending, fetched,
                 lateVars>>

InitHist ==
  /\ cache = <<>>
  /\ maxSize \in 1..MaxMaxSize
  /\ defaultTTL = MaxDefaultTTL
  /\ enableCache = TRUE
  /\ now = 0
  /\ call = [p \in Procs |-> IdleCall]
  /\ InitRetryIdle
  /\ InitExtIdle

NextHist ==
  \/ \E k \in Keys, t \in TtlArgs : HGetStart(k, t)
  \/ \E d \in Data : HFetchSettle(ResolveWith(d))
  \/ \E e \in FetchErrors : HFetchSettle(RejectWith(e))
  \/ \E k \in Keys : HDelete(k)
  \/ HClear
  \/ HCleanup
  \/ Tick

SpecHist == InitHist /\ [][NextHist]_vars

\* ------------------------------------------------------ getStats steps
\* variant: an entry whose age equals its ttl is counted as valid
ValidCountInclusive(m, time) ==
  Cardinality({i \in DOMAIN m : IsFreshInclusive(m[i], time)})

\* getStats: validEntries, the entries with age < entry.ttl
ValidCount(m, time) == Cardinality({i \in DOMAIN m : IsFresh(m[i], time)})

\* getStats: oldestEntry, the first key in Map order with the least timestamp
OldestEntry(m) ==
  IF Len(m) = 0 THEN NullKey
  ELSE m[CHOOSE i \in DOMAIN m :
           /\ \A j \in DOMAIN m : m[i].timestamp <= m[j].timestamp
           /\ \A j \in 1..(i - 1) : m[j].timestamp > m[i].timestamp].key

\* getStats: newestEntry, the first key in Map order with the greatest
\* timestamp above the initial newestTime = 0
NewestEntry(m) ==
  LET late == {i \in DOMAIN m : m[i].timestamp > 0}
  IN  IF late = {} THEN NullKey
      ELSE m[CHOOSE i \in late :
               /\ \A j \in late : m[i].timestamp >= m[j].timestamp
               /\ \A j \in 1..(i - 1) : m[j].timestamp < m[i].timestamp].key

\* getStats(), also GET /api/cache/clear; seq tells two calls apart
GetStats ==
  /\ stats' = [seq |-> 1 - stats.seq,
               totalEntries |-> Len(cache),
               maxSize |-> maxSize,
               validEntries |-> ValidCount(cache, now),
               expiredEntries |-> Len(cache) - ValidCount(cache, now),
               oldestEntry |-> OldestEntry(cache),
               newestEntry |-> NewestEntry(cache)]
  /\ UNCHANGED <<cacheVars, retryVars, req, enableRetry, useCache,
                 boundary, pending, sweep, fetched, keyCall, page, origin>>

NextStats ==
  \/ \E k \in Keys, d \in Data, t \in TtlArgs : Set(k, d, t)
  \/ \E k \in Keys : Delete(k)
  \/ Cleanup
  \/ Tick
  \/ GetStats

SpecStats == Init /\ [][NextStats]_vars

\* ------------------------------------------------------ generateCacheKey
\* parameter names, in the order Array.prototype.sort() puts them (UTF-16
\* code units: digits before upper case before lower case)
NameOrder == <<"10", "9", "B", "a">>
ParamNames == {NameOrder[i] : i \in DOMAIN NameOrder}

\* the names that are array indices, in ascending numeric order
IndexNames == <<"9", "10">>

\* parameter values: a boolean, a number, a string
ParamValues ==
  {[type |-> "boolean", b |-> TRUE, n |-> 0, s |-> ""],
   [type |-> "number", b |-> FALSE, n |-> 1, s |-> ""],
   [type |-> "string", b |-> FALSE, n |-> 0, s |-> "s"]}

Prefixes == {"sorted-posts", "p"}

\* an object literal: its (name, value) pairs in insertion order
ParamLists ==
  UNION {{p \in [1..n -> [name : ParamNames, value : ParamValues]] :
            \A i, j \in 1..n : i # j => p[i].name # p[j].name}
         : n \in 0..MaxParams}

\* the template literal conversion of a value
ToStr(v) ==
  CASE v.type = "boolean" -> (IF v.b THEN "true" ELSE "false")
    [] v.type = "number" -> (IF v.n = 0 THEN "0" ELSE "1")
    [] OTHER -> v.s

\* Object.keys: index names ascending, then the others in insertion order
ObjectKeys(p) ==
  LET names == [i \in DOMAIN p |-> p[i].name]
      has(n) == \E i \in DOMAIN p : p[i].name = n
      isIndex(n) == \E i \in DOMAIN IndexNames : IndexNames[i] = n
  IN  SelectSeq(IndexNames, has) \o SelectSeq(names, LAMBDA n : ~isIndex(n))

\* variant: the keys are not sorted
SortKeysUnsorted(ks) == ks

\* Array.prototype.sort() on distinct names
SortKeys(ks) ==
  LET rank(n) == CHOOSE i \in DOMAIN NameOrder : NameOrder[i] = n
  IN  [i \in DOMAIN ks |->
         ks[CHOOSE j \in DOMAIN ks :
              Cardinality({l \in DOMAIN ks : rank(ks[l]) < rank(ks[j])})
                = i - 1]]

\* params[key]
ParamValue(p, n) == p[CHOOSE i \in DOMAIN p : p[i].name = n].value

\* Array.prototype.join
RECURSIVE Join(_, _)
Join(parts, sep) ==
  IF Len(parts) = 0 THEN ""
  ELSE IF Len(parts) = 1 THEN parts[1]
  ELSE parts[1] \o sep \o Join(Tail(parts), sep)

\* generateCacheKey(prefix, params)
GenerateCacheKey(prefix, p) ==
  LET keys == SortKeys(ObjectKeys(p))
      sortedParams ==
        Join([i \in DOMAIN keys |->
                keys[i] \o "=" \o ToStr(ParamValue(p, keys[i]))], "&")
  IN  IF sortedParams # "" THEN prefix \o ":" \o sortedParams ELSE prefix

\* a call of generateCacheKey
KeyCall(prefix, p) ==
  /\ keyCall' = [pc |-> "done", prefix |-> prefix, params |-> p,
                 key |-> GenerateCacheKey(prefix, p)]
  /\ UNCHANGED <<cacheVars, retryVars, req, enableRetry, useCache,
                 boundary, pending, sweep, fetched, stats, page, origin>>

NextKey == \E prefix \in Prefixes, p \in ParamLists : KeyCall(prefix, p)

SpecKey == InitBoundary /\ [][NextKey]_vars

\* ------------------------------------------- two overlapping callers of get
\* two requests being rendered at the same instant of the clock
ConcProcs == {"p1", "p2"}

InitConc ==
  /\ cache = <<>>
  /\ maxSize \in 1..MaxMaxSize
  /\ defaultTTL = MaxDefaultTTL
  /\ enableCache = TRUE
  /\ now = 0
  /\ call = [p \in ConcProcs |-> IdleCall]
  /\ InitRetryIdle
  /\ InitExtIdle

NextConc ==
  \/ \E p \in ConcProcs, k \in Keys, t \in TtlArgs : GetStart(p, k, t)
  \/ \E p \in ConcProcs, d \in Data : FetchResolve(p, d)
  \/ \E p \in ConcProcs, e \in FetchErrors : FetchReject(p, e)

SpecConc == InitConc /\ [][NextConc]_vars

\* ======================================================= MemoryCache claims
\* C1: with caching enabled, get(key, fetcher, ttl) returns the stored data
\* without invoking the fetcher if and only if an entry for key exists and
\* now - insertedAt < ttl of that entry; in every other case (no entry, or
\* now - insertedAt >= ttl, equality included) the fetcher is invoked, and it
\* is invoked exactly once for the call.
C1_TtlValidity ==
  [][\A p \in Procs :
       /\ (enableCache /\ call[p].pc # "fetching" /\ call'[p] # call[p]) =>
            LET k == call'[p].key
                valid == {i \in DOMAIN cache :
                            /\ cache[i].key = k
                            /\ now - cache[i].timestamp < cache[i].ttl}
            IN  /\ valid # {} =>
                     /\ call'[p].pc = "done"
                     /\ call'[p].fetches = 0
                     /\ \E i \in valid :
                          call'[p].result = ResolveWith(cache[i].data)
                /\ valid = {} =>
                     /\ call'[p].pc = "fetching"
                     /\ call'[p].fetches = 1
       /\ call[p].pc = "fetching" => call'[p].fetches = 1
    ]_vars

\* a get has returned the data of an entry of age 1 and larger ttl, no fetch
C1_Witness ==
  \E p \in Procs :
    /\ enableCache
    /\ call[p].pc = "done" /\ call[p].mode = "hit" /\ call[p].fetches = 0
    /\ \E i \in DOMAIN cache :
         /\ cache[i].key = call[p].key
         /\ now - cache[i].timestamp = 1 /\ cache[i].ttl > 1
         /\ call[p].result = ResolveWith(cache[i].data)

\* C2: if an entry for key is present but expired when get(key, fetcher) is
\* called and the fetcher rejects, get resolves to the expired entry's data
\* and does not reject.
C2_StaleFallback ==
  [][\A p \in Procs :
       /\ (enableCache /\ call[p].pc # "fetching"
             /\ call'[p].pc = "fetching") =>
            call'[p].cached =
              {[data |-> cache[i].data] :
                 i \in {j \in DOMAIN cache : cache[j].key = call'[p].key}}
       /\ (/\ call[p].pc = "fetching" /\ call[p].mode = "miss"
           /\ call[p].cached # {}
           /\ call'[p].pc = "done" /\ call'[p].outcome.kind = "error") =>
            \E c \in call[p].cached :
              call'[p].result = ResolveWith(c.data)
    ]_vars

\* a get whose fetcher rejected has resolved to data
C2_Witness ==
  \E p \in Procs :
    /\ call[p].pc = "done" /\ call[p].mode = "miss"
    /\ call[p].outcome.kind = "error"
    /\ call[p].result.kind = "value"

\* C3: if no entry for key exists when get(key, fetcher) is called and the
\* fetcher rejects with error E, get rejects with that same error E.
C3_NoStalePropagation ==
  [][\A p \in Procs :
       /\ (/\ call[p].pc # "fetching" /\ call'[p].pc = "fetching"
           /\ \A i \in DOMAIN cache : cache[i].key # call'[p].key) =>
            call'[p].cached = {}
       /\ (/\ call[p].pc = "fetching" /\ call[p].cached = {}
           /\ call'[p].pc = "done" /\ call'[p].outcome.kind = "error") =>
            /\ call'[p].result.kind = "error"
            /\ call'[p].result.error = call'[p].outcome.error
    ]_vars

\* a get on a key without entry has rejected with the fetcher's error E2
C3_Witness ==
  \E p \in Procs :
    /\ call[p].pc = "done" /\ call[p].mode = "miss"
    /\ call[p].outcome = RejectWith("E2")
    /\ call[p].result = RejectWith("E2")

\* C4: for every maxSize >= 1 and every sequence of get, set, delete, clear
\* and cleanup calls with arbitrary string keys (the empty string included),
\* the number of stored entries never exceeds maxSize.
C4_SizeBound == Len(cache) <= maxSize

\* C5: in every reachable state holding exactly maxSize entries, inserting a
\* key that is not present removes exactly one entry, that entry is one with
\* the earliest insertedAt, and the new key is stored.
C5_EvictOldest ==
  [][LET old == {cache[i].key : i \in DOMAIN cache}
         new == {cache'[i].key : i \in DOMAIN cache'}
     IN  (Len(cache) = maxSize /\ new \ old # {}) =>
           \E i \in DOMAIN cache :
             /\ \A j \in DOMAIN cache :
                  cache[i].timestamp <= cache[j].timestamp
             /\ new = (old \ {cache[i].key}) \cup (new \ old)
             /\ Cardinality(new \ old) = 1
    ]_vars

\* C6: set(key, ...) for a key that is already present never removes another
\* key's entry; the set of keys is unchanged and only key's entry is replaced.
C6_ReplaceKeepsOthers ==
  [][LET old == {cache[i].key : i \in DOMAIN cache}
         new == {cache'[i].key : i \in DOMAIN cache'}
         At(m, k) == {m[i] : i \in {j \in DOMAIN m : m[j].key = k}}
     IN  \A k \in old \cap new :
           At(cache', k) # At(cache, k) =>
             /\ new = old
             /\ \A k2 \in old \ {k} : At(cache', k2) = At(cache, k2)
    ]_vars

\* C7: while the caching flag is disabled every get invokes the fetcher
\* exactly once and settles with its outcome, set is a no-op (no entry is
\* added or replaced), an empty cache stays empty, and the flag is read on
\* every call.
C7_DisabledBypass ==
  [][/\ \A p \in Procs :
          /\ (call[p].pc # "fetching" /\ call'[p] # call[p]) =>
               /\ ~enableCache =>
                    /\ call'[p].pc = "fetching" /\ call'[p].fetches = 1
                    /\ call'[p].mode = "bypass"
               /\ enableCache => call'[p].mode # "bypass"
          /\ (/\ call[p].pc = "fetching" /\ call[p].mode = "bypass"
              /\ call'[p].pc = "done") =>
               /\ call'[p].result = call'[p].outcome
               /\ call'[p].fetches = 1
               /\ cache' = cache
     /\ ~enableCache =>
          \A i \in DOMAIN cache' : \E j \in DOMAIN cache : cache'[i] = cache[j]
     /\ (~enableCache /\ cache = <<>>) => cache' = <<>>
    ]_vars

\* with the flag off a get has fetched and returned data, the cache is empty
C7_Witness ==
  \E p \in Procs :
    /\ ~enableCache /\ cache = <<>>
    /\ call[p].pc = "done" /\ call[p].mode = "bypass"
    /\ call[p].fetches = 1 /\ call[p].result.kind = "value"

\* ================================================== retryWithBackoff claims
\* C8: for every maxRetries >= 0, if every invocation of fn rejects with a
\* retryable error (a transport error or a status >= 500), fn is invoked
\* exactly maxRetries + 1 times and the run ends rejecting with the error of
\* the last invocation.
C8_RetryCount ==
  /\ fnCalls <= maxRetries + 1
  /\ (/\ Len(thrown) = fnCalls
      /\ \A i \in DOMAIN thrown : ~thrown[i].api \/ thrown[i].status >= 500) =>
       /\ retryPc = "done" =>
            /\ fnCalls = maxRetries + 1
            /\ retryResult = RetryThrow(thrown[fnCalls])
       /\ fnCalls = maxRetries + 1 => retryPc = "done"

\* four failing invocations under maxRetries = 3, rejected with the fourth
C8_Witness ==
  /\ retryPc = "done" /\ maxRetries = 3 /\ fnCalls = 4 /\ Len(thrown) = 4
  /\ \A i \in DOMAIN thrown : ~thrown[i].api \/ thrown[i].status >= 500
  /\ retryResult.kind = "error" /\ retryResult.err.id = 4

\* C9: after the failed attempt with 0-based index a (a < maxRetries) the
\* wait before the next attempt is exactly baseDelay * 2^a; there is no wait
\* after a success or after the final failed attempt; retryWithBackoff(fn, 3,
\* 100) with an always failing retryable fn waits 100, 200, 400.
C9_BackoffDelays ==
  /\ \A i \in DOMAIN waits : waits[i] = baseDelay * 2^(i - 1)
  /\ retryPc = "waiting" => Len(waits) = fnCalls /\ fnCalls <= maxRetries
  /\ retryPc \in {"calling", "done"} => Len(waits) = fnCalls - 1
  /\ (/\ retryPc # "calling" /\ Len(thrown) = fnCalls /\ fnCalls >= 1
      /\ ~thrown[fnCalls].api \/ thrown[fnCalls].status >= 500
      /\ fnCalls - 1 < maxRetries) =>
       /\ retryPc = "waiting"
       /\ waits[fnCalls] = baseDelay * 2^(fnCalls - 1)
  /\ (/\ retryPc = "done" /\ maxRetries = 3 /\ baseDelay = 100
      /\ Len(thrown) = 4) => waits = <<100, 200, 400>>

\* the run (fn, 3, 100) has ended after waiting 100, 200, 400
C9_Witness ==
  /\ retryPc = "done" /\ maxRetries = 3 /\ baseDelay = 100
  /\ Len(thrown) = 4 /\ waits = <<100, 200, 400>>

\* C10: if fn rejects with a non retryable client error (400..499 other than
\* 429), fn is invoked exactly once, there is no wait and the run rejects
\* with that same error, for every maxRetries >= 0.
C10_ClientErrorStops ==
  (/\ Len(thrown) >= 1
   /\ thrown[1].api
   /\ thrown[1].status \in (400..499) \ {429}) =>
    /\ retryPc = "done"
    /\ fnCalls = 1
    /\ waits = <<>>
    /\ retryResult = RetryThrow(thrown[1])

\* a run with maxRetries = 3 has ended on a 404 of the first invocation
C10_Witness ==
  /\ retryPc = "done" /\ maxRetries = 3 /\ fnCalls = 1
  /\ thrown = <<APIError(404, 1)>>
  /\ retryResult = RetryThrow(APIError(404, 1))

\* C11: an upstream 429 is retryable: with maxRetries >= 1, when fn rejects
\* with status 429 the run waits the backoff delay and invokes fn again; a
\* run never ends on a 429 before invocation maxRetries + 1.
C11_RateLimitRetried ==
  (/\ retryPc = "done" /\ retryResult.kind = "error"
   /\ retryResult.err.api /\ retryResult.err.status = 429) =>
    fnCalls = maxRetries + 1


\* ================================================== error boundary claims
\* C12: withErrorBoundary(operation, fallback, context) never rejects: when
\* operation throws or rejects with any error (an APIError of any status, a
\* NetworkError, any other value) the result is exactly fallback, and when
\* operation succeeds the result is exactly operation's value.
C12_BoundaryFallback ==
  boundary.pc = "done" =>
    /\ boundary.result.kind = "value"
    /\ boundary.outcome.kind = "error" =>
         boundary.result.data = boundary.fallback
    /\ boundary.outcome.kind = "value" =>
         boundary.result.data = boundary.outcome.data

\* an operation rejected with an APIError of status 500 and the boundary
\* resolved to a fallback that is not the empty value
C12_Witness ==
  /\ boundary.pc = "done"
  /\ boundary.outcome.kind = "error"
  /\ boundary.outcome.err.api /\ boundary.outcome.err.status = 500
  /\ boundary.fallback # Empty
  /\ boundary.result = ResolveWith(boundary.fallback)

C14_RetryThenSuccess ==
  [][req.pc = "retrying" =>
       /\ (retryPc' = "done" /\ retryResult'.kind = "error") =>
            \/ \E i \in DOMAIN thrown' :
                 thrown'[i].api /\ ~IsRetryable(thrown'[i].status)
            \/ Len(thrown') = maxRetries + 1
       /\ (retryPc' = "done" /\ retryResult'.kind = "value") =>
            /\ req'.result = ResolveWith(Derive(req.op, retryResult'.data))
            /\ req'.calls = Len(thrown) + 1
            /\ \E i \in DOMAIN cache' :
                 /\ cache'[i].key = PublishedKey
                 /\ cache'[i].data = retryResult'.data
                 /\ cache'[i].timestamp = now
    ]_vars

\* C15: with retries enabled every content query, getPostBySlug included,
\* reaches the upstream through retry-with-backoff: a query whose only
\* upstream request failed with a transport error has not ended, it makes a
\* second request (config.api.retryAttempts >= 1).
C15_SlugRetried ==
  (/\ req.pc = "done" /\ enableRetry
   /\ req.upstream = "error" /\ req.failure = "NetworkError"
   /\ req.calls = 1) =>
     (req.op # SlugOp /\ maxRetries = 0)

\* ===================================================== concurrency claims
\* C16: at most one fetch in flight per key is not guaranteed. A get on a
\* key without valid entry invokes its fetcher even while another get is
\* fetching the same key, and every get whose fetcher resolves writes the
\* key: the entry left is the one of the fetch that completed last.
C16_LastWriteWins ==
  [][\A p \in ConcProcs :
       /\ (/\ call[p].pc # "fetching" /\ call'[p] # call[p]
           /\ ~CacheHit(MapGet(cache, call'[p].key), now)) =>
            /\ call'[p].pc = "fetching"
            /\ call'[p].mode = "miss"
            /\ call'[p].fetches = 1
       /\ (/\ call[p].pc = "fetching" /\ call'[p].pc = "done"
           /\ call'[p].outcome.kind = "value") =>
            /\ \A e \in MapGet(cache', call[p].key) :
                 e.data = call'[p].outcome.data /\ e.timestamp = now
            /\ MapGet(cache', call[p].key) # {}
    ]_vars

\* both callers missed on key "a" within one instant and with no other key
\* ever stored, both fetchers were invoked and resolved, with 1 and with 2,
\* and the entry left holds 2
C16_Witness ==
  /\ call["p1"].pc = "done" /\ call["p2"].pc = "done"
  /\ call["p1"].key = "a" /\ call["p2"].key = "a"
  /\ call["p1"].mode = "miss" /\ call["p2"].mode = "miss"
  /\ call["p1"].fetches = 1 /\ call["p2"].fetches = 1
  /\ call["p1"].outcome = ResolveWith(1)
  /\ call["p2"].outcome = ResolveWith(2)
  /\ Len(cache) = 1
  /\ \E e \in MapGet(cache, "a") : e.data = 2

\* C17: for non-overlapping requests there is at most one fetch per key per
\* TTL: after a get stored a fetched value under a key at time t (and absent
\* delete, clear or eviction of the key), no get on that key issued before
\* t + ttl invokes its fetcher; so sequential getSortedPosts, getPostCount,
\* getPaginatedPosts, getPostsByTag, getPostsByCategory and searchPosts
\* calls within one TTL window cause at most one upstream fetch.
C17_OneFetchPerTtl ==
  [][(req.pc \in {"idle", "done"} /\ req' # req) =>
       /\ req'.outerMode = "miss" =>
            \A f \in fetched :
              f.key = OuterKey(req'.op) => now - f.at >= defaultTTL
       /\ (req'.op \in PostsOps /\ (req'.innerMode = "miss" \/ req'.calls > 0)) =>
            \A f \in fetched :
              f.key = PublishedKey => now - f.at >= defaultTTL
    ]_vars

\* getPostCount was answered from the cache, with no upstream request, one
\* clock tick after the one upstream fetch of an earlier list query
C17_Witness ==
  /\ req.pc = "done" /\ req.op = "getPostCount"
  /\ req.outerMode = "hit" /\ req.calls = 0
  /\ req.result.kind = "value" /\ req.result.data # Empty
  /\ \E f \in fetched :
       /\ f.key = PublishedKey /\ f.data = req.result.data
       /\ now - f.at = 1 /\ defaultTTL > 1

\* ================================================ cache history claims
\* C18: once some get(key) has stored a successfully fetched value, and as
\* long as neither delete(key) nor clear() has been called since, every
\* later get(key) whose fetcher fails resolves to a previously fetched value
\* instead of rejecting, at any later time and after any other cache
\* activity (cleanup sweeps, inserts of other keys).
C18_OutageInvisible ==
  [][(/\ pending.pc = "fetching" /\ pending'.pc = "done"
      /\ pending'.outcome.kind = "error"
      /\ \E f \in fetched : f.key = pending.key) =>
        /\ pending'.result.kind = "value"
        /\ \E f \in fetched :
             f.key = pending.key /\ f.data = pending'.result.data
    ]_vars

\* C18 (amended): once some get(key) has stored a successfully fetched value
\* and neither delete(key) nor clear() has been called since, a later
\* get(key) whose fetcher fails resolves to the fetched value stored last,
\* provided an entry for key is still stored when get is called; when the
\* entry has been removed by a cleanup sweep after it expired, or evicted by
\* an insert at capacity, get rejects with the fetcher's error.
C18_OutageInvisibleWhileStored ==
  [][(/\ pending.pc = "fetching" /\ pending'.pc = "done"
      /\ pending'.outcome.kind = "error"
      /\ \E f \in fetched : f.key = pending.key) =>
        /\ pending.held # {} =>
             /\ pending'.result.kind = "value"
             /\ \E f \in fetched :
                  f.key = pending.key /\ f.data = pending'.result.data
        /\ pending.held = {} => pending'.result = pending'.outcome
    ]_vars

\* a get on "a" whose fetcher failed resolved to the value fetched earlier,
\* now expired, after a cleanup sweep and the insert of another key
C18_Witness ==
  /\ pending.pc = "done" /\ pending.key = "a"
  /\ pending.outcome.kind = "error"
  /\ \E f \in fetched :
       /\ f.key = "a" /\ pending.result = ResolveWith(f.data)
       /\ now - f.at >= defaultTTL
       /\ sweep.at > f.at
       /\ \E e \in MapGet(cache, "") : e.timestamp > f.at

\* C19: availability over freshness is preserved at the orchestrator: when
\* getPostBySlug (or getSortedPosts) returned fetched content earlier and its
\* cache entry has not been removed, a call made after the TTL expired while
\* the upstream is failing returns that earlier content rather than the
\* fallback, and the stored entry is not overwritten by the fallback value.
C19_StaleAtOrchestrator ==
  [][(/\ req.pc \in {"direct", "retrying"} /\ req'.pc = "done"
      /\ req.op \in {SlugOp, "getSortedPosts"}
      /\ req'.upstream = "error"
      /\ req.outerMode = "miss"
      /\ \E h \in req.outer : h.data # Empty
      /\ MapGet(cache, OuterKey(req.op)) # {}) =>
        /\ \E h \in req.outer : req'.result = ResolveWith(h.data)
        /\ \A e \in MapGet(cache', OuterKey(req.op)) : e.data # Empty
    ]_vars

\* C20: cleanup() removes exactly the entries with now - insertedAt >= ttl,
\* leaves every valid entry (key, data, insertedAt, ttl) and their order
\* unchanged, and returns the number of entries it removed; right after
\* cleanup no stored entry is expired.
C20_CleanupExact ==
  [][sweep' # sweep =>
       /\ cache' = SelectSeq(cache, LAMBDA x : now - x.timestamp < x.ttl)
       /\ sweep'.removed = Len(cache) - Len(cache')
       /\ sweep'.removed =
            Cardinality({i \in DOMAIN cache :
                           now - cache[i].timestamp >= cache[i].ttl})
       /\ \A i \in DOMAIN cache' :
            now - cache'[i].timestamp < cache'[i].ttl
    ]_vars

\* the last sweep has removed one entry, at the instant its age reached its
\* ttl, and has kept a valid one
C20_Witness ==
  /\ sweep.at = now /\ sweep.removed = 1
  /\ Len(cache) = 1
  /\ now - cache[1].timestamp < cache[1].ttl
  /\ \E f \in fetched :
       /\ f.key # cache[1].key
       /\ now - f.at = 1

\* ========================================================= getStats claim
\* C21: getStats() does not modify the cache and partitions the entries by
\* the validity test of get: totalEntries is the number of stored entries,
\* validEntries counts exactly the entries with now - insertedAt < ttl,
\* expiredEntries counts the rest, and totalEntries = validEntries +
\* expiredEntries.
C21_StatsPartition ==
  [][stats' # stats =>
       /\ cache' = cache
       /\ stats'.totalEntries = Len(cache)
       /\ stats'.validEntries =
            Cardinality({i \in DOMAIN cache :
                           now - cache[i].timestamp < cache[i].ttl})
       /\ stats'.expiredEntries =
            Cardinality({i \in DOMAIN cache :
                           now - cache[i].timestamp >= cache[i].ttl})
       /\ stats'.totalEntries = stats'.validEntries + stats'.expiredEntries
    ]_vars

\* getStats has reported one valid and one expired entry, the expired one at
\* the instant its age reached its ttl
C21_Witness ==
  /\ stats.totalEntries = 2 /\ stats.validEntries = 1
  /\ stats.expiredEntries = 1
  /\ Len(cache) = 2
  /\ \E i \in DOMAIN cache : now - cache[i].timestamp = cache[i].ttl
  /\ \E i \in DOMAIN cache : now - cache[i].timestamp < cache[i].ttl

\* ================================================= generateCacheKey claim
\* C22: generateCacheKey(prefix, params) is deterministic and independent of
\* parameter order: two calls with the same prefix and the same set of
\* (name, value) pairs, given in any insertion order, return the same key;
\* with no parameters the key is the prefix alone.
C22_KeyOrderIndependent ==
  [][LET pairs(c) == {c.params[i] : i \in DOMAIN c.params}
     IN  /\ (/\ keyCall.pc = "done" /\ keyCall'.pc = "done"
             /\ keyCall'.prefix = keyCall.prefix
             /\ pairs(keyCall') = pairs(keyCall)) =>
              keyCall'.key = keyCall.key
         /\ (keyCall'.pc = "done" /\ Len(keyCall'.params) = 0) =>
              keyCall'.key = keyCall'.prefix
    ]_vars

\* the key of { a: true, B: 1 }, the names given in an order that sort()
\* reverses
C22_Witness ==
  /\ keyCall.pc = "done"
  /\ keyCall.prefix = "sorted-posts"
  /\ Len(keyCall.params) = 2
  /\ keyCall.params[1].name = "a" /\ keyCall.params[2].name = "B"
  /\ keyCall.key = "sorted-posts:B=1&a=true"

\* ============================================ authentication failure claim
\* C23: an upstream 401 response is never retried (no further upstream call
\* is made for that query, whatever maxRetries is) and the content query
\* that hit it resolves to the empty/default fallback without rejecting.
C23_UnauthorizedFallback ==
  [][LET thrown401 ==
           /\ Len(thrown') = Len(thrown) + 1
           /\ thrown'[Len(thrown')].api
           /\ thrown'[Len(thrown')].status = 401
         direct401 == req.pc = "direct" /\ req'.failure = "SilentAPIError"
         dev401 == /\ req.pc = "retrying" /\ retryPc = "calling"
                   /\ retryResult' = RetryValue(Empty)
     IN  (thrown401 \/ direct401 \/ dev401) =>
           /\ req'.pc = "done"
           /\ req'.calls = req.calls
           /\ req'.result = ResolveWith(Empty)
    ]_vars

\* C23 (amended): an upstream 401 response is never retried and the content
\* query that hit it resolves without rejecting: in production to the
\* content of the expired published-articles entry when get holds one, and
\* to the empty/default fallback otherwise; under DEV, where fetchAPI
\* answers a 401 with empty data, to the empty value.
C23_UnauthorizedNoRetry ==
  [][LET thrown401 ==
           /\ Len(thrown') = Len(thrown) + 1
           /\ thrown'[Len(thrown')].api
           /\ thrown'[Len(thrown')].status = 401
         direct401 == req.pc = "direct" /\ req'.failure = "SilentAPIError"
         dev401 == /\ req.pc = "retrying" /\ retryPc = "calling"
                   /\ retryResult' = RetryValue(Empty)
     IN  /\ (thrown401 \/ direct401 \/ dev401) =>
              /\ req'.pc = "done"
              /\ req'.calls = req.calls
              /\ req'.result.kind = "value"
         /\ (thrown401 \/ direct401) =>
              IF req.inner # {}
              THEN \E h \in req.inner : req'.result.data = h.data
              ELSE req'.result.data = Empty
         /\ dev401 => req'.result.data = Empty
    ]_vars

\* getSortedPosts, allowed two retries, made one upstream request, got a
\* 401 and resolved to the posts of the expired published-articles entry
C23_Witness ==
  /\ req.pc = "done" /\ req.op = "getSortedPosts"
  /\ req.failure = "SilentAPIError"
  /\ maxRetries = 2 /\ req.calls = 1 /\ fnCalls = 1
  /\ Len(thrown) = 1
  /\ req.inner # {}
  /\ req.result.kind = "value" /\ req.result.data # Empty

\* ============================================================ ttl claims
\* C24: when get is given an explicit ttl override t (any t >= 0, t = 0
\* included) the stored entry's ttl is exactly t; the default TTL is used
\* only when no override is supplied; an entry's ttl never changes until the
\* entry is replaced.
C24_TtlOverride ==
  [][\A p \in Procs :
       (/\ call[p].pc = "fetching" /\ call[p].mode = "miss"
        /\ call'[p].pc = "done" /\ call'[p].outcome.kind = "value"
        /\ enableCache) =>
          \A e \in MapGet(cache', call[p].key) :
            e.ttl = IF call[p].ttl = Undefined THEN defaultTTL
                    ELSE call[p].ttl
    ]_vars

\* C25: on a cache miss with retries enabled, each cached Strapi list query
\* makes at least one upstream request before it can fail.
C25_ListQueryCallsUpstream ==
  (/\ req.pc = "done" /\ req.op \in ListQueries
   /\ enableRetry /\ req.outerMode = "miss"
   /\ req.upstream = "error") => req.calls >= 1

\* C26: the memo of the unified data fetcher is request-level: every page
\* request obtains its posts through contentManager.getSortedPosts.
C26_PageCallsContentManager ==
  page.pc = "done" => page.calls = 1

\* C27: clear() and delete(key) do not cancel an in-flight fetch: the step
\* of clear or delete removes the key and leaves the waiting get as it was,
\* and when the fetcher then resolves, get stores and returns its data, so
\* the key is in the cache again.
C27_FlushKeepsFetch ==
  [][/\ (pending.pc = "fetching" /\ ~pending.flushed /\ pending'.flushed) =>
          /\ pending' = [pending EXCEPT !.flushed = TRUE]
          /\ ~MapHas(cache', pending.key)
     /\ (/\ pending.pc = "fetching" /\ pending.flushed
         /\ pending.mode = "miss"
         /\ pending'.pc = "done" /\ pending'.outcome.kind = "value") =>
          /\ pending'.result = pending'.outcome
          /\ \E e \in MapGet(cache', pending.key) :
               e.data = pending'.outcome.data /\ e.timestamp = now
    ]_vars

C27_Witness ==
  /\ pending.pc = "done" /\ pending.flushed /\ pending.mode = "miss"
  /\ pending.outcome.kind = "value"
  /\ \E e \in MapGet(cache, pending.key) : e.data = pending.outcome.data

\* C28: a value that get returns through stale fallback is the data of the
\* entry stored under the key at the moment get returns.
C28_StaleIsStored ==
  [][(/\ pending.pc = "fetching" /\ pending'.pc = "done"
      /\ pending'.outcome.kind = "error"
      /\ pending'.result.kind = "value") =>
        \E e \in MapGet(cache', pending.key) :
          e.data = pending'.result.data
    ]_vars

\* C29: a get whose fetcher rejects writes nothing to the cache: neither its
\* lookup step nor its settling step changes the map (no entry is created,
\* the expired entry keeps its data, timestamp and ttl), so the next get for
\* that key invokes its fetcher again.
C29_RejectedGetWritesNothing ==
  [][/\ (pending'.pc = "fetching" /\ pending.pc # "fetching") =>
          cache' = cache
     /\ (/\ pending.pc = "fetching" /\ pending'.pc = "done"
         /\ pending'.outcome.kind = "error") => cache' = cache
     /\ (/\ pending.pc = "done" /\ pending.outcome.kind = "error"
         /\ pending' # pending /\ pending'.key = pending.key) =>
          pending'.pc = "fetching"
    ]_vars

C29_Witness ==
  /\ pending.pc = "done" /\ pending.outcome.kind = "error"
  /\ pending.result.kind = "value"
  /\ \E e \in MapGet(cache, pending.key) :
       /\ e.data = pending.result.data
       /\ e.timestamp < now /\ IsExpired(e, now)

\* C30: when every upstream call succeeds, a post list that getSortedPosts
\* returns left the upstream at most cacheTTL before it is returned.
C30_SortedPostsFresh ==
  [][(/\ req' # req /\ req'.pc = "done" /\ req'.op = "getSortedPosts"
      /\ req'.result.kind = "value") =>
        now - OriginOf(origin', SortedPostsKey) <= defaultTTL
    ]_vars
====
